---------------------------- MODULE Spec2Model ----------------------------
(***************************************************************************)
(* Model of the text comparison engine of AI-Validator                     *)
(* (server/services/simple_text_comparison.py).                            *)
(*                                                                         *)
(* A text is a sequence of one-character strings.  A float is modelled as  *)
(* an exact rational [num, den]: for the lengths reached here every        *)
(* comparison the code makes between doubles (>= 0.6, >= 0.95, >, the      *)
(* scaled score against 60 and 95) has the same outcome on the rationals.  *)
(* Sequence positions are 1-based, so used_dest_indices holds j+1 for the  *)
(* Python index j and best_match_idx = 0 stands for Python's -1.           *)
(***************************************************************************)
EXTENDS Integers, Sequences, FiniteSets, Bags, TLC

\* ------------------------------------------------------------------ bounds
MaxSourceTextLen == 3
MaxDestTextLen == 2
MaxSourceLines == 2
MaxDestLines == 2

\* ------------------------------------------------------------- characters
InputChars == {"A", "b", ",", " ", "\n"}
Whitespace == {" ", "\n", "\t"}
\* variant of the character class of line 101 that also holds the period
Punctuation_with_period == {",", ";", ":", "!", "?", "\"", "."}

Punctuation == {",", ";", ":", "!", "?", "\""}
LowerOf == [c \in {"A", "B", "C"} |->
              IF c = "A" THEN "a" ELSE IF c = "B" THEN "b" ELSE "c"]

Min(a, b) == IF a <= b THEN a ELSE b
Max(a, b) == IF a >= b THEN a ELSE b

SeqsUpTo(S, n) == UNION {[1..k -> S] : k \in 0..n}

\* ---------------------------------------------------------------- floats
Rat(n, d) == [num |-> n, den |-> d]
RatGeq(x, y) == x.num * y.den >= y.num * x.den
RatGt(x, y) == x.num * y.den > y.num * x.den
RatEq(x, y) == x.num * y.den = y.num * x.den
Times100(x) == Rat(100 * x.num, x.den)

\* self.similarity_threshold = 0.6
similarity_threshold == Rat(6, 10)
\* the literal 0.95 of _match_lines
exact_cutoff == Rat(95, 100)

\* ------------------------------------------------ difflib.SequenceMatcher
\* find_longest_match over the whole of a and b (no junk; autojunk only
\* applies to sequences of 200 or more elements): the longest common block,
\* of those the one starting earliest in a, of those the earliest in b.
RECURSIVE CommonRun(_, _, _, _)
CommonRun(a, b, p, q) ==
  IF p > Len(a) \/ q > Len(b) THEN 0
  ELSE IF a[p] # b[q] THEN 0
  ELSE 1 + CommonRun(a, b, p + 1, q + 1)

SetMax(S) == CHOOSE x \in S : \A y \in S : y <= x
SetMin(S) == CHOOSE x \in S : \A y \in S : x <= y

find_longest_match(a, b) ==
  LET run == [t \in (1..Len(a)) \X (1..Len(b)) |-> CommonRun(a, b, t[1], t[2])]
      size == SetMax({run[t] : t \in DOMAIN run} \cup {0})
  IN  IF size = 0 THEN <<1, 1, 0>>
      ELSE LET besti == SetMin({t[1] : t \in {u \in DOMAIN run : run[u] = size}})
               bestj == SetMin({q \in 1..Len(b) : run[<<besti, q>>] = size})
           IN  <<besti, bestj, size>>

\* sum of the sizes of get_matching_blocks(): the longest block, then the
\* same on the pieces to its left and to its right
RECURSIVE MatchingCount(_, _)
MatchingCount(a, b) ==
  IF Len(a) = 0 \/ Len(b) = 0 THEN 0
  ELSE LET m == find_longest_match(a, b)
       IN  IF m[3] = 0 THEN 0
           ELSE m[3]
                + MatchingCount(SubSeq(a, 1, m[1] - 1), SubSeq(b, 1, m[2] - 1))
                + MatchingCount(SubSeq(a, m[1] + m[3], Len(a)),
                                SubSeq(b, m[2] + m[3], Len(b)))

\* SequenceMatcher(None, a, b).ratio()
ratio(a, b) ==
  IF Len(a) + Len(b) = 0 THEN Rat(1, 1)
  ELSE Rat(2 * MatchingCount(a, b), Len(a) + Len(b))

\* ------------------------------------------------------- string helpers
\* str.lower()
Lower(text) ==
  [p \in 1..Len(text) |->
     IF text[p] \in DOMAIN LowerOf THEN LowerOf[text[p]] ELSE text[p]]

\* variant of line 98 that collapses the runs of blanks inside a line only
\* and keeps the newlines
RECURSIVE CollapseWhitespace_within_lines(_)
CollapseWhitespace_within_lines(text) ==
  IF text = <<>> THEN <<>>
  ELSE IF Head(text) = "\n"
       THEN <<"\n">> \o CollapseWhitespace_within_lines(Tail(text))
       ELSE IF Head(text) \in Whitespace
            THEN IF Len(text) > 1 /\ text[2] \in Whitespace \ {"\n"}
                 THEN CollapseWhitespace_within_lines(Tail(text))
                 ELSE <<" ">> \o CollapseWhitespace_within_lines(Tail(text))
            ELSE <<Head(text)>> \o CollapseWhitespace_within_lines(Tail(text))

\* re.sub(r'\s+', ' ', text)
RECURSIVE CollapseWhitespace(_)
CollapseWhitespace(text) ==
  IF text = <<>> THEN <<>>
  ELSE IF Head(text) \in Whitespace
       THEN IF Len(text) > 1 /\ text[2] \in Whitespace
            THEN CollapseWhitespace(Tail(text))
            ELSE <<" ">> \o CollapseWhitespace(Tail(text))
       ELSE <<Head(text)>> \o CollapseWhitespace(Tail(text))

\* re.sub(r'[,;:!?"]', '', text)
RemovePunctuation(text) == SelectSeq(text, LAMBDA c : c \notin Punctuation)

\* str.strip()
RECURSIVE LStrip(_)
LStrip(text) ==
  IF text # <<>> /\ Head(text) \in Whitespace THEN LStrip(Tail(text)) ELSE text

RECURSIVE RStrip(_)
RStrip(text) ==
  IF text # <<>> /\ text[Len(text)] \in Whitespace
  THEN RStrip(SubSeq(text, 1, Len(text) - 1)) ELSE text

Strip(text) == RStrip(LStrip(text))

\* str.split('\n'): the pieces between newlines, empty pieces included
RECURSIVE SplitNewline(_)
SplitNewline(text) ==
  IF \E p \in 1..Len(text) : text[p] = "\n"
  THEN LET p == CHOOSE q \in 1..Len(text) :
                   text[q] = "\n" /\ \A r \in 1..(q - 1) : text[r] # "\n"
       IN  <<SubSeq(text, 1, p - 1)>> \o SplitNewline(SubSeq(text, p + 1, Len(text)))
  ELSE <<text>>

\* str.split(): the maximal runs of non-whitespace characters
RECURSIVE SplitWords(_)
SplitWords(text) ==
  LET t == LStrip(text)
  IN  IF t = <<>> THEN <<>>
      ELSE LET n == IF \E p \in 1..Len(t) : t[p] \in Whitespace
                    THEN (CHOOSE q \in 1..Len(t) :
                            t[q] \in Whitespace
                            /\ \A r \in 1..(q - 1) : t[r] \notin Whitespace) - 1
                    ELSE Len(t)
           IN  <<SubSeq(t, 1, n)>> \o SplitWords(SubSeq(t, n + 1, Len(t)))

SeqToSet(s) == {s[p] : p \in 1..Len(s)}

\* ------------------------------------------------------ _normalize_text
normalize_text(text) ==
  IF text = <<>> THEN <<>>
  ELSE Strip(RemovePunctuation(CollapseWhitespace(Lower(text))))

\* [line.strip() for line in clean.split('\n') if line.strip()]
RECURSIVE StripNonBlank(_)
StripNonBlank(pieces) ==
  IF pieces = <<>> THEN <<>>
  ELSE IF Strip(Head(pieces)) # <<>>
       THEN <<Strip(Head(pieces))>> \o StripNonBlank(Tail(pieces))
       ELSE StripNonBlank(Tail(pieces))

split_lines(clean) == StripNonBlank(SplitNewline(clean))

\* ---------------------------------------------- _calculate_line_similarity
calculate_line_similarity(line1, line2) ==
  IF line1 = <<>> /\ line2 = <<>> THEN Rat(1, 1)
  ELSE IF line1 = <<>> \/ line2 = <<>> THEN Rat(0, 1)
  ELSE ratio(line1, line2)


\* ------------------------------------------------- _identify_line_issues
Issue(kind, words, source_len, dest_len) ==
  [kind |-> kind, words |-> words, source_len |-> source_len, dest_len |-> dest_len]

\* list(word_set)[:3]: a set of str iterates in hash order, which the
\* interpreter's hash seed decides, so any order of the set can come out
FirstThree(word_set) ==
  {q \in [1..Min(3, Cardinality(word_set)) -> word_set] :
      \A x, y \in DOMAIN q : x # y => q[x] # q[y]}

\* variant of line 181 that reports a difference of 10 as well
length_issue_from_ten(source_line, dest_line) ==
  IF Len(source_line) - Len(dest_line) >= 10 \/ Len(dest_line) - Len(source_line) >= 10
  THEN <<Issue("Length difference", <<>>, Len(source_line), Len(dest_line))>>
  ELSE <<>>

length_issue(source_line, dest_line) ==
  IF Len(source_line) - Len(dest_line) > 10 \/ Len(dest_line) - Len(source_line) > 10
  THEN <<Issue("Length difference", <<>>, Len(source_line), Len(dest_line))>>
  ELSE <<>>

\* the set of issue lists the call can return
identify_line_issues(source_line, dest_line) ==
  LET source_words == SeqToSet(SplitWords(source_line))
      dest_words == SeqToSet(SplitWords(dest_line))
      missing_words == source_words \ dest_words
      extra_words == dest_words \ source_words
  IN  {length_issue(source_line, dest_line)
         \o (IF missing_words # {} THEN <<Issue("Missing words", mw, 0, 0)>> ELSE <<>>)
         \o (IF extra_words # {} THEN <<Issue("Extra words", ew, 0, 0)>> ELSE <<>>) :
       mw \in FirstThree(missing_words), ew \in FirstThree(extra_words)}

\* ------------------------------------------------------------ _match_lines
TextMatch(source_text, dest_text, match_score, match_type, line_number, issues) ==
  [source_text |-> source_text, dest_text |-> dest_text,
   match_score |-> match_score, match_type |-> match_type,
   line_number |-> line_number, issues |-> issues]

\* variants of the test of line 122: ties replace the best so far; no threshold
is_better_last_tie(similarity, best_score) ==
  RatGeq(similarity, best_score) /\ RatGeq(similarity, similarity_threshold)

is_better_no_threshold(similarity, best_score) == RatGt(similarity, best_score)

\* the test of line 122
is_better(similarity, best_score) ==
  RatGt(similarity, best_score) /\ RatGeq(similarity, similarity_threshold)

\* the inner loop (lines 115-124) from destination position j on
RECURSIVE find_best_match(_, _, _, _, _, _)
find_best_match(source_line, dests, used, j, best_match_idx, best_score) ==
  IF j > Len(dests) THEN [idx |-> best_match_idx, score |-> best_score]
  ELSE IF j \in used
       THEN find_best_match(source_line, dests, used, j + 1, best_match_idx, best_score)
       ELSE LET similarity == calculate_line_similarity(source_line, dests[j])
            IN  IF is_better(similarity, best_score)
                THEN find_best_match(source_line, dests, used, j + 1, j, similarity)
                ELSE find_best_match(source_line, dests, used, j + 1,
                                     best_match_idx, best_score)

\* variant of line 129 whose cutoff is strict
classify_strict(best_score) == IF RatGt(best_score, exact_cutoff) THEN "exact" ELSE "similar"

\* line 129
classify(best_score) == IF RatGeq(best_score, exact_cutoff) THEN "exact" ELSE "similar"

matched_entry(sources, dests, k, best, issues) ==
  TextMatch(sources[k], dests[best.idx], Times100(best.score),
            classify(best.score), k, issues)

missing_entry(sources, k) ==
  TextMatch(sources[k], <<>>, Rat(0, 1), "missing", k,
            <<Issue("Line missing in destination", <<>>, 0, 0)>>)

\* variant of line 159 whose line_number is the source line count itself
extra_entry_at_count(dest_line, source_count) ==
  TextMatch(<<>>, dest_line, Rat(0, 1), "extra", source_count,
            <<Issue("Extra line not in source", <<>>, 0, 0)>>)

extra_entry(dest_line, source_count) ==
  TextMatch(<<>>, dest_line, Rat(0, 1), "extra", source_count + 1,
            <<Issue("Extra line not in source", <<>>, 0, 0)>>)

\* variant of the second pass that lists the unused lines last to first
RECURSIVE extra_entries_reversed(_, _, _, _)
extra_entries_reversed(dests, used, j, source_count) ==
  IF j > Len(dests) THEN <<>>
  ELSE IF j \notin used
       THEN extra_entries_reversed(dests, used, j + 1, source_count)
              \o <<extra_entry(dests[j], source_count)>>
       ELSE extra_entries_reversed(dests, used, j + 1, source_count)

\* the second pass (lines 152-161) from destination position j on
RECURSIVE extra_entries(_, _, _, _)
extra_entries(dests, used, j, source_count) ==
  IF j > Len(dests) THEN <<>>
  ELSE IF j \notin used
       THEN <<extra_entry(dests[j], source_count)>>
              \o extra_entries(dests, used, j + 1, source_count)
       ELSE extra_entries(dests, used, j + 1, source_count)

\* ------------------------------------------------------ metrics (55-72)
\* variant of line 56 that counts every entry, whatever its score
count_matched_any_score(ms) ==
  Cardinality({k \in 1..Len(ms) : RatGeq(ms[k].match_score, Rat(0, 1))})

\* variant of line 56 that counts against the exact cutoff on the score's scale
count_matched_exact_only(ms) ==
  Cardinality({k \in 1..Len(ms) : RatGeq(ms[k].match_score, Times100(exact_cutoff))})

count_matched(ms) ==
  Cardinality({k \in 1..Len(ms) : RatGeq(ms[k].match_score, similarity_threshold)})

count_type(ms, type) == Cardinality({k \in 1..Len(ms) : ms[k].match_type = type})

\* variant of lines 61-68 that leaves the ratio on its 0 to 1 scale
overall_similarity_unscaled(src_lines, dst_lines, src_clean, dst_clean) ==
  IF Len(src_lines) = 0 /\ Len(dst_lines) = 0 THEN Rat(100, 1)
  ELSE IF Len(src_lines) = 0 \/ Len(dst_lines) = 0 THEN Rat(0, 1)
  ELSE ratio(src_clean, dst_clean)

overall_similarity_of(src_lines, dst_lines, src_clean, dst_clean) ==
  IF Len(src_lines) = 0 /\ Len(dst_lines) = 0 THEN Rat(100, 1)
  ELSE IF Len(src_lines) = 0 \/ Len(dst_lines) = 0 THEN Rat(0, 1)
  ELSE Times100(ratio(src_clean, dst_clean))

\* variant of lines 201-204 that tests "one is empty" before "both are empty"
calculate_character_accuracy_or_first(source, dest) ==
  IF source = <<>> \/ dest = <<>> THEN Rat(0, 1)
  ELSE Times100(ratio(source, dest))

calculate_character_accuracy(source, dest) ==
  IF source = <<>> /\ dest = <<>> THEN Rat(100, 1)
  ELSE IF source = <<>> \/ dest = <<>> THEN Rat(0, 1)
  ELSE Times100(ratio(source, dest))

\* variant of lines 214-217 that tests "one is empty" before "both are empty"
calculate_word_accuracy_or_first(source, dest) ==
  IF SplitWords(source) = <<>> \/ SplitWords(dest) = <<>> THEN Rat(0, 1)
  ELSE Times100(ratio(SplitWords(source), SplitWords(dest)))

calculate_word_accuracy(source, dest) ==
  LET source_words == SplitWords(source)
      dest_words == SplitWords(dest)
  IN  IF source_words = <<>> /\ dest_words = <<>> THEN Rat(100, 1)
      ELSE IF source_words = <<>> \/ dest_words = <<>> THEN Rat(0, 1)
      ELSE Times100(ratio(source_words, dest_words))

\* ------------------------------------------- _generate_recommendations
Recommendation(text, count) == [text |-> text, count |-> count]

\* variant of lines 230-237 whose thresholds are exclusive
headline_strict(overall_similarity) ==
  IF RatGt(overall_similarity, Rat(95, 1))
  THEN Recommendation("Excellent! Data transfer appears to be nearly perfect.", 0)
  ELSE IF RatGt(overall_similarity, Rat(80, 1))
  THEN Recommendation("Good data transfer with minor differences.", 0)
  ELSE IF RatGt(overall_similarity, Rat(60, 1))
  THEN Recommendation("Moderate accuracy - please review the highlighted differences.", 0)
  ELSE Recommendation("Low accuracy detected - significant differences found.", 0)

headline(overall_similarity) ==
  IF RatGeq(overall_similarity, Rat(95, 1))
  THEN Recommendation("Excellent! Data transfer appears to be nearly perfect.", 0)
  ELSE IF RatGeq(overall_similarity, Rat(80, 1))
  THEN Recommendation("Good data transfer with minor differences.", 0)
  ELSE IF RatGeq(overall_similarity, Rat(60, 1))
  THEN Recommendation("Moderate accuracy - please review the highlighted differences.", 0)
  ELSE Recommendation("Low accuracy detected - significant differences found.", 0)

\* variant of lines 239-246 that reports the extra lines before the missing ones
generate_recommendations_extra_first(ms, overall_similarity) ==
  LET missing_count == count_type(ms, "missing")
      extra_count == count_type(ms, "extra")
      similar_count == count_type(ms, "similar")
  IN  <<headline(overall_similarity)>>
        \o (IF extra_count > 0
            THEN <<Recommendation("Check extra line(s) that weren't in the original.",
                                  extra_count)>>
            ELSE <<>>)
        \o (IF missing_count > 0
            THEN <<Recommendation("Review missing line(s) that weren't transferred.",
                                  missing_count)>>
            ELSE <<>>)
        \o (IF similar_count > 0
            THEN <<Recommendation("Verify line(s) with minor differences for accuracy.",
                                  similar_count)>>
            ELSE <<>>)

generate_recommendations(ms, overall_similarity) ==
  LET missing_count == count_type(ms, "missing")
      extra_count == count_type(ms, "extra")
      similar_count == count_type(ms, "similar")
  IN  <<headline(overall_similarity)>>
        \o (IF missing_count > 0
            THEN <<Recommendation("Review missing line(s) that weren't transferred.",
                                  missing_count)>>
            ELSE <<>>)
        \o (IF extra_count > 0
            THEN <<Recommendation("Check extra line(s) that weren't in the original.",
                                  extra_count)>>
            ELSE <<>>)
        \o (IF similar_count > 0
            THEN <<Recommendation("Verify line(s) with minor differences for accuracy.",
                                  similar_count)>>
            ELSE <<>>)

TextValidationResult(src_lines, dst_lines, src_clean, dst_clean, ms) ==
  LET overall_similarity ==
        overall_similarity_of(src_lines, dst_lines, src_clean, dst_clean)
  IN  [overall_similarity |-> overall_similarity,
       total_lines |-> Max(Len(src_lines), Len(dst_lines)),
       matched_lines |-> count_matched(ms),
       missing_lines |-> count_type(ms, "missing"),
       extra_lines |-> count_type(ms, "extra"),
       text_matches |-> ms,
       recommendations |-> generate_recommendations(ms, overall_similarity),
       character_accuracy |-> calculate_character_accuracy(src_clean, dst_clean),
       word_accuracy |-> calculate_word_accuracy(src_clean, dst_clean)]

NoResult == TextValidationResult(<<>>, <<>>, <<>>, <<>>, <<>>)

\* ---------------------------------------------- the engine in the server
\* the request threads of the server that can be inside compare_texts at once
MaxThreads == 2
Threads == 1..MaxThreads

\* the instance of line 251 with the field __init__ gives it (line 37)
SimpleTextComparison == [similarity_threshold |-> similarity_threshold]

\* the (source_text, dest_text) arguments of the requests
ServerCalls ==
  {<<(<<"A", " ", "b">>), (<<"A", "b">>)>>,
   <<(<<"A">>), (<<"b">>)>>,
   <<(<<"b">>), (<<"b">>)>>}
NoArgs == <<(<<>>), (<<>>)>>

ServerWords ==
  UNION {SeqToSet(SplitWords(normalize_text(call[1])))
           \cup SeqToSet(SplitWords(normalize_text(call[2]))) : call \in ServerCalls}

\* what the interpreter's hash seed decides for lines 193 and 196: the order
\* in which the str objects of a set come out; every order of the words is
\* the order of some seed
HashOrders ==
  {q \in [1..Cardinality(ServerWords) -> ServerWords] :
      \A x, y \in DOMAIN q : x # y => q[x] # q[y]}

\* list(word_set)[:3] in the process whose hash order is order
first_three(order, word_set) ==
  LET Member(w) == w \in word_set
      listed == SelectSeq(order, Member)
  IN  SubSeq(listed, 1, Min(3, Len(listed)))

\* _identify_line_issues in the process whose hash order is order
identify_line_issues_under(order, source_line, dest_line) ==
  LET source_words == SeqToSet(SplitWords(source_line))
      dest_words == SeqToSet(SplitWords(dest_line))
      missing_words == source_words \ dest_words
      extra_words == dest_words \ source_words
  IN  length_issue(source_line, dest_line)
        \o (IF missing_words # {}
            THEN <<Issue("Missing words", first_three(order, missing_words), 0, 0)>>
            ELSE <<>>)
        \o (IF extra_words # {}
            THEN <<Issue("Extra words", first_three(order, extra_words), 0, 0)>>
            ELSE <<>>)

\* the test of line 122 and the count of line 56 with the field as the thread
\* reads it from the shared instance
is_better_at(threshold, similarity, best_score) ==
  RatGt(similarity, best_score) /\ RatGeq(similarity, threshold)

RECURSIVE find_best_match_at(_, _, _, _, _, _, _)
find_best_match_at(threshold, source_line, dests, used, j, best_match_idx, best_score) ==
  IF j > Len(dests) THEN [idx |-> best_match_idx, score |-> best_score]
  ELSE IF j \in used
       THEN find_best_match_at(threshold, source_line, dests, used, j + 1,
                               best_match_idx, best_score)
       ELSE LET similarity == calculate_line_similarity(source_line, dests[j])
            IN  IF is_better_at(threshold, similarity, best_score)
                THEN find_best_match_at(threshold, source_line, dests, used, j + 1,
                                        j, similarity)
                ELSE find_best_match_at(threshold, source_line, dests, used, j + 1,
                                        best_match_idx, best_score)

count_matched_at(threshold, ms) ==
  Cardinality({k \in 1..Len(ms) : RatGeq(ms[k].match_score, threshold)})

\* variant in which the locals of compare_texts and _match_lines are kept on
\* the shared instance
frame_of_shared(t) == 1

\* the locals of an invocation (lines 43-48, 107-108) live in the frame of the
\* thread that runs it
frame_of(t) == t

NoFrame ==
  [source_clean |-> <<>>, dest_clean |-> <<>>, source_lines |-> <<>>,
   dest_lines |-> <<>>, i |-> 0, used_dest_indices |-> {}, matches |-> <<>>,
   result |-> NoResult]

\* what a client keeps of an earlier response
NoPrevious ==
  [called |-> FALSE, source_text |-> <<>>, dest_text |-> <<>>, result |-> NoResult]

\* ------------------------------------------------------------------ inputs
\* the texts of the scenarios the specification names, beside the bounded ones
ScenarioTexts ==
  {<<"A", "\n", "B", "\n", "C">>, <<"A", "\n", "C">>, <<"A", "\n", "B">>,
   <<"A", "\n", "b">>, <<"b", "\n", "A">>,
   <<"A", " ", ",", " ", "b">>, <<"A", " ", " ", "b">>,
   <<"(", "A", ")", "-", ".", ";">>, <<":", "!", "?", "\"", "B">>}

SourceTexts == SeqsUpTo(InputChars, MaxSourceTextLen) \cup ScenarioTexts
DestTexts == SeqsUpTo(InputChars, MaxDestTextLen) \cup ScenarioTexts

\* the overall_similarity arguments of a call of _generate_recommendations on
\* its own: the three thresholds and the value just below each
SimilarityValues ==
  {Rat(59, 1), Rat(60, 1), Rat(79, 1), Rat(80, 1), Rat(94, 1), Rat(95, 1)}

\* lines as the matcher's contract takes them: normalised and not blank
Lines == {<<"a">>, <<"b">>, <<"a", "b">>, <<"b", "a">>, <<"a", "b", "b">>}
SourceLineSeqs == SeqsUpTo(Lines, MaxSourceLines)
DestLineSeqs == SeqsUpTo(Lines, MaxDestLines)

\* and calls on lines whose similarity is exactly 0.95 and exactly 0.60
Repeat(c, n) == [p \in 1..n |-> c]
Line20a == Repeat("a", 20)
Line19ab == Repeat("a", 19) \o <<"b">>
Line3c2d == <<"c", "c", "c", "d", "d">>
Line3c2e == <<"c", "c", "c", "e", "e">>
\* and on lines whose lengths differ by 10 and by 11, and with four words
\* of one line absent from the other
Line10a == Repeat("a", 10)
Line9a == Repeat("a", 9)
LineFourWords == <<"a", " ", "b", " ", "c", " ", "d">>
LineOneWord == <<"a", "b", "c", "d">>
ScenarioLinePairs ==
  {<<<<Line20a>>, <<Line19ab>>>>,
   <<<<Line3c2d>>, <<Line3c2e>>>>,
   <<<<Line3c2d, Line20a>>, <<Line19ab, Line3c2e>>>>,
   <<<<Line20a>>, <<Line10a>>>>,
   <<<<Line20a, LineFourWords>>, <<Line9a, LineOneWord>>>>,
   <<<<LineOneWord>>, <<LineFourWords>>>>}

LinePairs == (SourceLineSeqs \X DestLineSeqs) \cup ScenarioLinePairs

\* ------------------------------------------------------------------- state
VARIABLES pc, caller, source_text, dest_text, source_clean, dest_clean,
          source_lines, dest_lines, i, used_dest_indices, matches, result,
          overall_similarity, recommendations,
          hash_seed, engine, thread_pc, thread_args, frames, previous,
          gemini_pc, attempt, requests_sent, responses, sleeps, gemini_return,
          uploads, comparisons, response

\* the argument and the return value of a call of _generate_recommendations
recommend_vars == <<overall_similarity, recommendations>>

\* one call on the engine, its locals and its result
call_vars == <<pc, caller, source_text, dest_text, source_clean, dest_clean,
               source_lines, dest_lines, i, used_dest_indices, matches, result,
               recommend_vars>>

\* the server process: its interpreter's hash seed, the shared engine instance
\* of line 251, and the request threads that call compare_texts on it
server_vars == <<hash_seed, engine, thread_pc, thread_args, frames, previous>>

\* the Gemini client (one call of extract_text_from_image in progress) and the
\* database behind the routes
gemini_vars == <<gemini_pc, attempt, requests_sent, responses, sleeps,
                 gemini_return>>

route_vars == <<uploads, comparisons, response>>

service_vars == <<gemini_vars, route_vars>>

vars == <<call_vars, server_vars, service_vars>>

\* no call in progress
CallIdle ==
  /\ pc = "idle"
  /\ caller = "none"
  /\ source_text = <<>>
  /\ dest_text = <<>>
  /\ source_clean = <<>>
  /\ dest_clean = <<>>
  /\ source_lines = <<>>
  /\ dest_lines = <<>>
  /\ i = 0
  /\ used_dest_indices = {}
  /\ matches = <<>>
  /\ result = NoResult
  /\ overall_similarity = Rat(0, 1)
  /\ recommendations = <<>>

\* the engine as line 251 constructs it, and no request in progress
ServerIdle ==
  /\ engine = SimpleTextComparison
  /\ thread_pc = [t \in Threads |-> "idle"]
  /\ thread_args = [t \in Threads |-> NoArgs]
  /\ frames = [t \in Threads |-> NoFrame]

\* a value that may be None: <<>> is None, <<v>> is the value v
None == <<>>

Some(v) == <<v>>

\* dict.get(key, default) on a key that may be absent
Get(opt, default) == IF opt = None THEN default ELSE opt[1]

\* no extract_text_from_image has returned yet
NoReturn ==
  [success |-> FALSE,
   result |-> [extracted_text |-> None, error |-> None, attempt |-> 0,
               max_retries_reached |-> FALSE]]

\* no request has been answered yet
NoResponse == [route |-> "none", status |-> 0, engine_invoked |-> FALSE]

\* no Gemini call in progress, empty tables
ServiceIdle ==
  /\ gemini_pc = "idle"
  /\ attempt = 0
  /\ requests_sent = 0
  /\ responses = <<>>
  /\ sleeps = <<>>
  /\ gemini_return = NoReturn
  /\ uploads = <<>>
  /\ comparisons = <<>>
  /\ response = NoResponse

\* one caller at a time; the hash seed is not drawn, the issue lists range
\* over every order (identify_line_issues)
Init ==
  /\ CallIdle
  /\ ServerIdle
  /\ ServiceIdle
  /\ hash_seed = <<>>
  /\ previous = NoPrevious

\* a call of _match_lines on its own: lines 107-108
CallMatchLines ==
  /\ pc = "idle"
  /\ \E lines \in LinePairs :
        /\ source_lines' = lines[1]
        /\ dest_lines' = lines[2]
  /\ pc' = "match"
  /\ caller' = "match_lines"
  /\ i' = 0
  /\ used_dest_indices' = {}
  /\ matches' = <<>>
  /\ UNCHANGED <<source_text, dest_text, source_clean, dest_clean, result>>
  /\ UNCHANGED recommend_vars
  /\ UNCHANGED <<server_vars, service_vars>>

\* compare_texts up to its call of _match_lines: lines 43-53, 107-108
CallCompareTexts ==
  /\ pc = "idle"
  /\ \E source \in SourceTexts, dest \in DestTexts :
        /\ source_text' = source
        /\ dest_text' = dest
  /\ pc' = "match"
  /\ caller' = "compare_texts"
  /\ source_clean' = normalize_text(source_text')
  /\ dest_clean' = normalize_text(dest_text')
  /\ source_lines' = split_lines(source_clean')
  /\ dest_lines' = split_lines(dest_clean')
  /\ i' = 0
  /\ used_dest_indices' = {}
  /\ matches' = <<>>
  /\ UNCHANGED result
  /\ UNCHANGED recommend_vars
  /\ UNCHANGED <<server_vars, service_vars>>

\* variant of MatchFound that looks among all destination lines and takes the
\* best one away from the earlier source line that held it
MatchFound_reassigns ==
  /\ pc = "match"
  /\ i < Len(source_lines)
  /\ LET best == find_best_match(source_lines[i + 1], dest_lines, {}, 1, 0, Rat(0, 1))
         kept == [e \in 1..Len(matches) |->
                    IF matches[e].match_type \in {"exact", "similar"}
                         /\ matches[e].dest_text = dest_lines[best.idx]
                    THEN missing_entry(source_lines, matches[e].line_number)
                    ELSE matches[e]]
     IN  /\ best.idx >= 1
         /\ \E issues \in identify_line_issues(source_lines[i + 1], dest_lines[best.idx]) :
               matches' = Append(kept,
                                 matched_entry(source_lines, dest_lines, i + 1, best, issues))
         /\ used_dest_indices' = used_dest_indices \cup {best.idx}
  /\ i' = i + 1
  /\ UNCHANGED <<pc, caller, source_text, dest_text, source_clean, dest_clean,
                 source_lines, dest_lines, result>>
  /\ UNCHANGED recommend_vars
  /\ UNCHANGED <<server_vars, service_vars>>

\* variant of MatchFound that does not record the destination line as used
MatchFound_not_marked ==
  /\ pc = "match"
  /\ i < Len(source_lines)
  /\ LET best == find_best_match(source_lines[i + 1], dest_lines,
                                 used_dest_indices, 1, 0, Rat(0, 1))
     IN  /\ best.idx >= 1
         /\ \E issues \in identify_line_issues(source_lines[i + 1], dest_lines[best.idx]) :
               matches' = Append(matches,
                                 matched_entry(source_lines, dest_lines, i + 1, best, issues))
  /\ i' = i + 1
  /\ UNCHANGED <<pc, caller, source_text, dest_text, source_clean, dest_clean,
                 source_lines, dest_lines, used_dest_indices, result>>
  /\ UNCHANGED recommend_vars
  /\ UNCHANGED <<server_vars, service_vars>>

\* one round of the first pass whose source line finds a destination line
MatchFound ==
  /\ pc = "match"
  /\ i < Len(source_lines)
  /\ LET best == find_best_match(source_lines[i + 1], dest_lines,
                                 used_dest_indices, 1, 0, Rat(0, 1))
     IN  /\ best.idx >= 1
         /\ \E issues \in identify_line_issues(source_lines[i + 1], dest_lines[best.idx]) :
               matches' = Append(matches,
                                 matched_entry(source_lines, dest_lines, i + 1, best, issues))
         /\ used_dest_indices' = used_dest_indices \cup {best.idx}
  /\ i' = i + 1
  /\ UNCHANGED <<pc, caller, source_text, dest_text, source_clean, dest_clean,
                 source_lines, dest_lines, result>>
  /\ UNCHANGED recommend_vars
  /\ UNCHANGED <<server_vars, service_vars>>

\* variant of MatchMissing that emits nothing for the source line
MatchMissing_dropped ==
  /\ pc = "match"
  /\ i < Len(source_lines)
  /\ find_best_match(source_lines[i + 1], dest_lines,
                     used_dest_indices, 1, 0, Rat(0, 1)).idx < 1
  /\ i' = i + 1
  /\ UNCHANGED <<pc, caller, source_text, dest_text, source_clean, dest_clean,
                 source_lines, dest_lines, used_dest_indices, matches, result>>
  /\ UNCHANGED recommend_vars
  /\ UNCHANGED <<server_vars, service_vars>>

\* one round of the first pass whose source line finds none
MatchMissing ==
  /\ pc = "match"
  /\ i < Len(source_lines)
  /\ find_best_match(source_lines[i + 1], dest_lines,
                     used_dest_indices, 1, 0, Rat(0, 1)).idx < 1
  /\ matches' = Append(matches, missing_entry(source_lines, i + 1))
  /\ i' = i + 1
  /\ UNCHANGED <<pc, caller, source_text, dest_text, source_clean, dest_clean,
                 source_lines, dest_lines, used_dest_indices, result>>
  /\ UNCHANGED recommend_vars
  /\ UNCHANGED <<server_vars, service_vars>>

\* the second pass and the return of _match_lines
MatchExtras ==
  /\ pc = "match"
  /\ i = Len(source_lines)
  /\ matches' = matches \o extra_entries(dest_lines, used_dest_indices, 1,
                                         Len(source_lines))
  /\ pc' = IF caller = "compare_texts" THEN "metrics" ELSE "done"
  /\ UNCHANGED <<caller, source_text, dest_text, source_clean, dest_clean,
                 source_lines, dest_lines, i, used_dest_indices, result>>
  /\ UNCHANGED recommend_vars
  /\ UNCHANGED <<server_vars, service_vars>>

\* the rest of compare_texts: lines 55-87
CompareMetrics ==
  /\ pc = "metrics"
  /\ result' = TextValidationResult(source_lines, dest_lines,
                                    source_clean, dest_clean, matches)
  /\ pc' = "done"
  /\ UNCHANGED <<caller, source_text, dest_text, source_clean, dest_clean,
                 source_lines, dest_lines, i, used_dest_indices, matches>>
  /\ UNCHANGED recommend_vars
  /\ UNCHANGED <<server_vars, service_vars>>

\* a call of _generate_recommendations on the matcher's list: lines 222-248
CallGenerateRecommendations ==
  /\ pc = "done"
  /\ caller = "match_lines"
  /\ \E similarity \in SimilarityValues : overall_similarity' = similarity
  /\ recommendations' = generate_recommendations(matches, overall_similarity')
  /\ pc' = "recommended"
  /\ UNCHANGED <<caller, source_text, dest_text, source_clean, dest_clean,
                 source_lines, dest_lines, i, used_dest_indices, matches, result>>
  /\ UNCHANGED <<server_vars, service_vars>>

\* the caller drops the result; the engine is ready for the next call
Return ==
  /\ pc \in {"done", "recommended"}
  /\ pc' = "idle"
  /\ caller' = "none"
  /\ source_text' = <<>>
  /\ dest_text' = <<>>
  /\ source_clean' = <<>>
  /\ dest_clean' = <<>>
  /\ source_lines' = <<>>
  /\ dest_lines' = <<>>
  /\ i' = 0
  /\ used_dest_indices' = {}
  /\ matches' = <<>>
  /\ result' = NoResult
  /\ overall_similarity' = Rat(0, 1)
  /\ recommendations' = <<>>
  /\ UNCHANGED <<server_vars, service_vars>>

Next ==
  \/ CallMatchLines
  \/ CallCompareTexts
  \/ MatchFound
  \/ MatchMissing
  \/ MatchExtras
  \/ CompareMetrics
  \/ CallGenerateRecommendations
  \/ Return

Spec == Init /\ [][Next]_vars

TypeOK ==
  /\ pc \in {"idle", "match", "metrics", "done", "recommended"}
  /\ caller \in {"none", "match_lines", "compare_texts"}
  /\ i \in 0..Len(source_lines)
  /\ used_dest_indices \subseteq 1..Len(dest_lines)

\* ------------------------------------------ requests on the shared engine
\* thread t enters compare_texts: lines 43-53, 107-108
ThreadCall(t) ==
  /\ thread_pc[t] = "idle"
  /\ \E call \in ServerCalls :
        LET clean_source == normalize_text(call[1])
            clean_dest == normalize_text(call[2])
        IN  /\ thread_args' = [thread_args EXCEPT ![t] = call]
            /\ frames' = [frames EXCEPT ![frame_of(t)] =
                            [source_clean |-> clean_source,
                             dest_clean |-> clean_dest,
                             source_lines |-> split_lines(clean_source),
                             dest_lines |-> split_lines(clean_dest),
                             i |-> 0,
                             used_dest_indices |-> {},
                             matches |-> <<>>,
                             result |-> NoResult]]
  /\ thread_pc' = [thread_pc EXCEPT ![t] = "match"]
  /\ UNCHANGED <<hash_seed, engine, previous, call_vars, service_vars>>

\* thread t runs one round of the first pass: lines 110-150
ThreadRound(t) ==
  /\ thread_pc[t] = "match"
  /\ frames[frame_of(t)].i < Len(frames[frame_of(t)].source_lines)
  /\ LET frame == frames[frame_of(t)]
         k == frame.i + 1
         best == find_best_match_at(engine.similarity_threshold,
                                    frame.source_lines[k], frame.dest_lines,
                                    frame.used_dest_indices, 1, 0, Rat(0, 1))
     IN  frames' = [frames EXCEPT ![frame_of(t)] =
           IF best.idx >= 1
           THEN [frame EXCEPT
                   !.matches = Append(frame.matches,
                      matched_entry(frame.source_lines, frame.dest_lines, k, best,
                         identify_line_issues_under(hash_seed, frame.source_lines[k],
                                                    frame.dest_lines[best.idx]))),
                   !.used_dest_indices = frame.used_dest_indices \cup {best.idx},
                   !.i = k]
           ELSE [frame EXCEPT
                   !.matches = Append(frame.matches, missing_entry(frame.source_lines, k)),
                   !.i = k]]
  /\ UNCHANGED <<hash_seed, engine, thread_pc, thread_args, previous, call_vars, service_vars>>

\* thread t runs the second pass and returns from _match_lines: lines 152-163
ThreadExtras(t) ==
  /\ thread_pc[t] = "match"
  /\ frames[frame_of(t)].i = Len(frames[frame_of(t)].source_lines)
  /\ LET frame == frames[frame_of(t)]
     IN  frames' = [frames EXCEPT ![frame_of(t)] =
           [frame EXCEPT !.matches = frame.matches
              \o extra_entries(frame.dest_lines, frame.used_dest_indices, 1,
                               Len(frame.source_lines))]]
  /\ thread_pc' = [thread_pc EXCEPT ![t] = "metrics"]
  /\ UNCHANGED <<hash_seed, engine, thread_args, previous, call_vars, service_vars>>

\* thread t computes the metrics and builds the result: lines 55-87
ThreadMetrics(t) ==
  /\ thread_pc[t] = "metrics"
  /\ LET frame == frames[frame_of(t)]
     IN  frames' = [frames EXCEPT ![frame_of(t)] =
           [frame EXCEPT !.result =
              [TextValidationResult(frame.source_lines, frame.dest_lines,
                                    frame.source_clean, frame.dest_clean, frame.matches)
                 EXCEPT !.matched_lines =
                    count_matched_at(engine.similarity_threshold, frame.matches)]]]
  /\ thread_pc' = [thread_pc EXCEPT ![t] = "done"]
  /\ UNCHANGED <<hash_seed, engine, thread_args, previous, call_vars, service_vars>>

\* thread t hands its result to the client, which may keep it
ThreadReturn(t) ==
  /\ thread_pc[t] = "done"
  /\ previous' \in {previous,
                    [called |-> TRUE,
                     source_text |-> thread_args[t][1],
                     dest_text |-> thread_args[t][2],
                     result |-> frames[frame_of(t)].result]}
  /\ thread_pc' = [thread_pc EXCEPT ![t] = "idle"]
  /\ thread_args' = [thread_args EXCEPT ![t] = NoArgs]
  /\ frames' = [frames EXCEPT ![frame_of(t)] = NoFrame]
  /\ UNCHANGED <<hash_seed, engine, call_vars, service_vars>>

\* the server process is started again (app.run(debug=True) reloads it): the
\* new interpreter draws its hash seed and line 251 constructs the engine
Restart ==
  /\ hash_seed' \in HashOrders
  /\ engine' = SimpleTextComparison
  /\ thread_pc' = [t \in Threads |-> "idle"]
  /\ thread_args' = [t \in Threads |-> NoArgs]
  /\ frames' = [t \in Threads |-> NoFrame]
  /\ UNCHANGED <<previous, call_vars, service_vars>>

InitServer ==
  /\ CallIdle
  /\ ServerIdle
  /\ ServiceIdle
  /\ hash_seed \in HashOrders
  /\ previous = NoPrevious

NextServer ==
  \/ \E t \in Threads : ThreadCall(t)
  \/ \E t \in Threads : ThreadRound(t)
  \/ \E t \in Threads : ThreadExtras(t)
  \/ \E t \in Threads : ThreadMetrics(t)
  \/ \E t \in Threads : ThreadReturn(t)
  \/ Restart

SpecServer == InitServer /\ [][NextServer]_vars

\* the server without restarts: one interpreter, one hash seed
NextProcess ==
  \/ \E t \in Threads : ThreadCall(t)
  \/ \E t \in Threads : ThreadRound(t)
  \/ \E t \in Threads : ThreadExtras(t)
  \/ \E t \in Threads : ThreadMetrics(t)
  \/ \E t \in Threads : ThreadReturn(t)

SpecProcess == InitServer /\ [][NextProcess]_vars

\* ============================================== services/gemini.py: retries
\* GeminiService.__init__
max_retries == 3

retry_delay == 1

RECURSIVE Pow2(_)
Pow2(n) == IF n = 0 THEN 1 ELSE 2 * Pow2(n - 1)

\* the status codes the API answers with here: success, a success other than
\* 200, client errors, rate limit, server errors
StatusCodes == {200, 204, 400, 404, 429, 500, 503}

\* the text of parts[0] in a 200 body
RawTexts == {<<>>, <<" ">>, <<"A">>, <<" ", "A", "\n">>}

\* a 200 body: not decodable (response.json() raises), decodable without the
\* candidates structure, or decodable with the text of its first part
JsonBodies == {[json |-> TRUE, text |-> None]}
                \cup {[json |-> TRUE, text |-> Some(t)] : t \in RawTexts}

NotJson == [json |-> FALSE, text |-> None]

NoBody == [json |-> FALSE, text |-> None]

\* what requests.post raises instead of answering
Raised == {"Timeout", "RequestException", "Exception"}

Reply(status_code, body) ==
  [status_code |-> status_code, body |-> body, raised |-> "none"]

Raise(exception) == [status_code |-> 0, body |-> NoBody, raised |-> exception]

\* str(response) of a decoded body without candidates
StrOfResponse == <<"{", "}">>

\* _parse_gemini_response
parse_gemini_response(body) ==
  IF body.text # None THEN Strip(body.text[1]) ELSE StrOfResponse

\* the three results extract_text_from_image builds
success_result(extracted_text, n) ==
  [success |-> TRUE,
   result |-> [extracted_text |-> Some(extracted_text), error |-> None,
               attempt |-> n, max_retries_reached |-> FALSE]]

client_error_result(n) ==
  [success |-> FALSE,
   result |-> [extracted_text |-> None,
               error |-> Some("Gemini API client error"), attempt |-> n,
               max_retries_reached |-> FALSE]]

all_failed_result ==
  [success |-> FALSE,
   result |-> [extracted_text |-> None,
               error |-> Some("All retry attempts failed"), attempt |-> 0,
               max_retries_reached |-> TRUE]]

\* every value extract_text_from_image can return
GeminiReturns ==
  {success_result(parse_gemini_response(body), n) :
     body \in JsonBodies, n \in 1..max_retries}
    \cup {client_error_result(n) : n \in 1..max_retries}
    \cup {all_failed_result}

should_sleep_always(k) == TRUE

\* the test before each time.sleep
should_sleep(k) == k < max_retries - 1

backoff_constant(k) == retry_delay

\* the argument of time.sleep
backoff(k) == retry_delay * Pow2(k)

\* the status codes of the two retrying branches
is_retriable_status(status_code) == status_code = 429 \/ status_code >= 500

\* the outcomes of one attempt that end in a retry branch: a 429, a 5xx, a
\* 200 whose body response.json() cannot decode, or an exception of the post
RetriableOutcomes ==
  {Reply(s, NoBody) : s \in {c \in StatusCodes : is_retriable_status(c)}}
    \cup {Reply(200, NotJson)}
    \cup {Raise(e) : e \in Raised}

\* a call of extract_text_from_image enters the loop
GeminiCall ==
  /\ gemini_pc = "idle"
  /\ gemini_pc' = "request"
  /\ attempt' = 0
  /\ requests_sent' = 0
  /\ responses' = <<>>
  /\ sleeps' = <<>>
  /\ gemini_return' = NoReturn
  /\ UNCHANGED <<call_vars, server_vars, route_vars>>

\* an attempt answered 200 with a decodable body
GeminiSuccess ==
  /\ gemini_pc = "request"
  /\ \E body \in JsonBodies :
       /\ responses' = Append(responses, Reply(200, body))
       /\ gemini_return' =
            success_result(parse_gemini_response(body), attempt + 1)
  /\ requests_sent' = requests_sent + 1
  /\ gemini_pc' = "returned"
  /\ UNCHANGED <<attempt, sleeps, call_vars, server_vars, route_vars>>

\* an attempt answered with a status of the else branch
GeminiClientError ==
  /\ gemini_pc = "request"
  /\ \E s \in StatusCodes :
       /\ s # 200
       /\ ~is_retriable_status(s)
       /\ responses' = Append(responses, Reply(s, NoBody))
  /\ requests_sent' = requests_sent + 1
  /\ gemini_return' = client_error_result(attempt + 1)
  /\ gemini_pc' = "returned"
  /\ UNCHANGED <<attempt, sleeps, call_vars, server_vars, route_vars>>

\* an attempt ended in a retry branch: sleep and continue, or fall out of the
\* loop after the last attempt and return the failure
GeminiRetriableFailure ==
  /\ gemini_pc = "request"
  /\ \E o \in RetriableOutcomes : responses' = Append(responses, o)
  /\ requests_sent' = requests_sent + 1
  /\ sleeps' = IF should_sleep(attempt)
               THEN Append(sleeps, backoff(attempt))
               ELSE sleeps
  /\ IF attempt + 1 < max_retries
     THEN /\ attempt' = attempt + 1
          /\ UNCHANGED <<gemini_pc, gemini_return>>
     ELSE /\ gemini_pc' = "returned"
          /\ gemini_return' = all_failed_result
          /\ UNCHANGED attempt
  /\ UNCHANGED <<call_vars, server_vars, route_vars>>

\* the caller takes the result
GeminiReturn ==
  /\ gemini_pc = "returned"
  /\ gemini_pc' = "idle"
  /\ UNCHANGED <<attempt, requests_sent, responses, sleeps, gemini_return,
                 call_vars, server_vars, route_vars>>

GeminiStep == GeminiSuccess \/ GeminiClientError \/ GeminiRetriableFailure

NextGemini ==
  \/ GeminiCall
  \/ GeminiSuccess
  \/ GeminiClientError
  \/ GeminiRetriableFailure
  \/ GeminiReturn

\* every post answers or times out (timeout = 30) and every sleep ends, so
\* the loop keeps stepping
SpecGemini == Init /\ [][NextGemini]_vars /\ WF_vars(GeminiStep)

\* ===================================== routes/uploads.py, simple_validation.py
MaxUploads == 2

MaxComparisons == 1

ImageTypes == {"main", "secondary"}

\* the value of `text or ''`
OrEmpty(text) == IF text = None THEN <<>> ELSE text[1]

upload_row_text_always(image_type, gemini_success, gemini_result) ==
  [image_type |-> image_type,
   gemini_processed |-> gemini_success,
   gemini_processed_at |-> IF gemini_success THEN Some("utcnow") ELSE None,
   gemini_extracted_text |-> Some(Get(gemini_result.extracted_text, <<>>)),
   gemini_error |-> IF ~gemini_success THEN gemini_result.error ELSE None]

\* the Upload row of handle_image_upload, by its Gemini columns
upload_row(image_type, gemini_success, gemini_result) ==
  [image_type |-> image_type,
   gemini_processed |-> gemini_success,
   gemini_processed_at |-> IF gemini_success THEN Some("utcnow") ELSE None,
   gemini_extracted_text |->
     IF gemini_success
     THEN Some(Get(gemini_result.extracted_text, <<>>))
     ELSE None,
   gemini_error |-> IF ~gemini_success THEN gemini_result.error ELSE None]

\* the assignments of reprocess_with_gemini to an existing row
reprocessed_row(upload, gemini_success, gemini_result) ==
  [upload EXCEPT
     !.gemini_processed = gemini_success,
     !.gemini_processed_at = IF gemini_success THEN Some("utcnow") ELSE None,
     !.gemini_extracted_text =
       IF gemini_success
       THEN Some(Get(gemini_result.extracted_text, <<>>))
       ELSE None,
     !.gemini_error = IF ~gemini_success THEN gemini_result.error ELSE None]

\* Upload.query.filter_by(id=..., image_type=...).first()
find_upload(id, image_type) ==
  IF id \in 1..Len(uploads) /\ uploads[id].image_type = image_type
  THEN Some(uploads[id])
  ELSE None

\* the JSON bodies of /compare: each id absent or naming a row that may exist
UploadIds == {None} \cup {Some(k) : k \in 1..MaxUploads}

CompareRequests == [main_upload_id : UploadIds, secondary_upload_id : UploadIds]

\* the status /compare answers with; 200 is the path through the engine
compare_uploads_status(data) ==
  IF data.main_upload_id = None \/ data.secondary_upload_id = None
  THEN 400
  ELSE LET main_upload == find_upload(data.main_upload_id[1], "main")
           secondary_upload ==
             find_upload(data.secondary_upload_id[1], "secondary")
       IN  IF main_upload = None THEN 404
           ELSE IF secondary_upload = None THEN 404
           ELSE IF OrEmpty(main_upload[1].gemini_extracted_text) = <<>>
           THEN 400
           ELSE IF OrEmpty(secondary_upload[1].gemini_extracted_text) = <<>>
           THEN 400
           ELSE 200

\* the texts a JSON body of /compare/text can carry
RouteTexts == {<<>>, <<" ", "\n">>, <<" ", "A">>}

\* a key of the body: absent, null (None), or a string
JsonTexts == {None} \cup {Some(t) : t \in RouteTexts}

\* the status /compare/text answers with: None.strip() raises AttributeError,
\* which the except clause turns into 500; `or` tests the source first
compare_raw_text_status(data) ==
  IF ~data.has_source_text \/ ~data.has_destination_text THEN 400
  ELSE IF data.source_text = None THEN 500
  ELSE IF Strip(data.source_text[1]) = <<>> THEN 400
  ELSE IF data.destination_text = None THEN 500
  ELSE IF Strip(data.destination_text[1]) = <<>> THEN 400
  ELSE 200

\* the JSON bodies of /compare/text; save_result is read on the path through
\* the engine only (line 249), where it takes both values
TextRequests ==
  {d \in [has_source_text : BOOLEAN, source_text : JsonTexts,
          has_destination_text : BOOLEAN, destination_text : JsonTexts,
          save_result : BOOLEAN] :
     /\ ~d.has_source_text => d.source_text = None
     /\ ~d.has_destination_text => d.destination_text = None
     /\ d.save_result => compare_raw_text_status(d) = 200}

Answer(route, status, engine_invoked) ==
  [route |-> route, status |-> status, engine_invoked |-> engine_invoked]

\* upload_main_image / upload_secondary_image: a rejected file raises
\* ValueError (400); an accepted one is sent to Gemini and stored
UploadImage(image_type) ==
  /\ \E accepted \in BOOLEAN :
       IF accepted
       THEN /\ Len(uploads) < MaxUploads
            /\ \E row \in {upload_row(image_type, r.success, r.result) :
                             r \in GeminiReturns} :
                 uploads' = Append(uploads, row)
            /\ response' = Answer("upload", 201, FALSE)
       ELSE /\ response' = Answer("upload", 400, FALSE)
            /\ UNCHANGED uploads
  /\ UNCHANGED <<comparisons, gemini_vars, call_vars, server_vars>>

\* reprocess_with_gemini
ReprocessUpload(id) ==
  /\ IF id \in 1..Len(uploads)
     THEN /\ \E row \in {reprocessed_row(uploads[id], r.success, r.result) :
                           r \in GeminiReturns} :
               uploads' = [uploads EXCEPT ![id] = row]
          /\ response' = Answer("reprocess", 200, FALSE)
     ELSE /\ response' = Answer("reprocess", 404, FALSE)
          /\ UNCHANGED uploads
  /\ UNCHANGED <<comparisons, gemini_vars, call_vars, server_vars>>

\* compare_uploads
CompareUploads(data) ==
  LET status == compare_uploads_status(data)
  IN  /\ status = 200 => Len(comparisons) < MaxComparisons
      /\ response' = Answer("compare", status, status = 200)
      /\ comparisons' =
           IF status = 200
           THEN Append(comparisons, [comparison_type |-> "simple_text"])
           ELSE comparisons
      /\ UNCHANGED <<uploads, gemini_vars, call_vars, server_vars>>

\* compare_raw_text
CompareRawText(data) ==
  LET status == compare_raw_text_status(data)
      saved == status = 200 /\ data.save_result
  IN  /\ saved => Len(comparisons) < MaxComparisons
      /\ response' = Answer("compare_text", status, status = 200)
      /\ comparisons' =
           IF saved
           THEN Append(comparisons, [comparison_type |-> "simple_text_only"])
           ELSE comparisons
      /\ UNCHANGED <<uploads, gemini_vars, call_vars, server_vars>>

NextRoutes ==
  \/ \E image_type \in ImageTypes : UploadImage(image_type)
  \/ \E id \in 1..MaxUploads : ReprocessUpload(id)
  \/ \E data \in CompareRequests : CompareUploads(data)
  \/ \E data \in TextRequests : CompareRawText(data)

SpecRoutes == Init /\ [][NextRoutes]_vars

\* ================================================================ claims
MatchLinesReturned == pc \in {"metrics", "done"}

IsSourced(tm) == tm.match_type \in {"exact", "similar", "missing"}
IsMatched(tm) == tm.match_type \in {"exact", "similar"}
HasDest(tm) == tm.match_type \in {"exact", "similar", "extra"}

BagOfSeq(s) == [x \in SeqToSet(s) |-> Cardinality({p \in 1..Len(s) : s[p] = x})]

\* the lines of dests at the positions of idx, in ascending order of position
RECURSIVE LinesAt(_, _, _)
LinesAt(dests, idx, j) ==
  IF j > Len(dests) THEN <<>>
  ELSE IF j \in idx THEN <<dests[j]>> \o LinesAt(dests, idx, j + 1)
  ELSE LinesAt(dests, idx, j + 1)

DestText(ms) == [k \in 1..Len(ms) |-> ms[k].dest_text]

\* C1: once match_lines has returned, every source line position k is the
\* line_number of exactly one entry of type exact, similar or missing, that
\* entry carries source line k as source_text, and no other entry carries a
\* source line.
C1_EverySourceLineOnce ==
  MatchLinesReturned =>
    /\ \A k \in 1..Len(source_lines) :
          /\ Cardinality({e \in 1..Len(matches) :
                 IsSourced(matches[e]) /\ matches[e].line_number = k}) = 1
          /\ \A e \in 1..Len(matches) :
                IsSourced(matches[e]) /\ matches[e].line_number = k
                  => matches[e].source_text = source_lines[k]
    /\ \A e \in 1..Len(matches) :
          IF IsSourced(matches[e])
          THEN matches[e].line_number \in 1..Len(source_lines)
          ELSE matches[e].match_type = "extra" /\ matches[e].source_text = <<>>

C1_Witness ==
  /\ MatchLinesReturned
  /\ Len(source_lines) = 2
  /\ \E e \in 1..Len(matches) : matches[e].match_type = "missing"
  /\ \E e \in 1..Len(matches) : IsMatched(matches[e])

\* C2: every destination line position is the dest_text of exactly one entry:
\* the matched entries carry the lines at the used positions, one entry per
\* used position, the extra entries carry the lines at the unused positions,
\* and a missing entry carries none.
C2_EveryDestLineOnce ==
  /\ Cardinality(used_dest_indices)
       = Cardinality({e \in 1..Len(matches) : IsMatched(matches[e])})
  /\ BagOfSeq(DestText(SelectSeq(matches, IsMatched)))
       = BagOfSeq(LinesAt(dest_lines, used_dest_indices, 1))
  /\ \A e \in 1..Len(matches) :
        matches[e].match_type = "missing" => matches[e].dest_text = <<>>
  /\ MatchLinesReturned =>
       /\ BagOfSeq(DestText(SelectSeq(matches, LAMBDA tm : tm.match_type = "extra")))
            = BagOfSeq(LinesAt(dest_lines,
                               (1..Len(dest_lines)) \ used_dest_indices, 1))
       /\ Cardinality({e \in 1..Len(matches) : HasDest(matches[e])}) = Len(dest_lines)

C2_Witness ==
  /\ MatchLinesReturned
  /\ Len(dest_lines) = 2
  /\ dest_lines[1] = dest_lines[2]
  /\ Cardinality(used_dest_indices) = 1
  /\ Len(source_lines) = 2

\* C3: in every entry the type and the score agree: a matched entry's score is
\* 100 times the similarity of its two lines, which is at least 0.60; it is
\* exact exactly when the similarity is at least 0.95 (score at least 95) and
\* similar otherwise; a missing or extra entry has score 0.
C3_TypeAgreesWithScore ==
  \A e \in 1..Len(matches) :
    LET tm == matches[e]
        sim == calculate_line_similarity(tm.source_text, tm.dest_text)
    IN  /\ tm.match_type \in {"exact", "similar", "missing", "extra"}
        /\ IsMatched(tm) =>
             /\ RatEq(tm.match_score, Times100(sim))
             /\ RatGeq(sim, Rat(60, 100))
             /\ tm.match_type = "exact" <=> RatGeq(sim, Rat(95, 100))
             /\ tm.match_type = "exact" <=> RatGeq(tm.match_score, Rat(95, 1))
             /\ tm.match_type = "similar" <=>
                  (RatGeq(tm.match_score, Rat(60, 1)) /\ ~RatGeq(tm.match_score, Rat(95, 1)))
        /\ ~IsMatched(tm) => tm.match_score.num = 0

\* an entry at exactly 0.95, one at exactly 0.60, each with a missing line in
\* reach of the same call
C3_Witness ==
  /\ MatchLinesReturned
  /\ \E e \in 1..Len(matches) :
        matches[e].match_type = "exact" /\ RatEq(matches[e].match_score, Rat(95, 1))
  /\ \E e \in 1..Len(matches) :
        matches[e].match_type = "similar" /\ RatEq(matches[e].match_score, Rat(60, 1))

\* C4: each round of the first pass pairs the next source line with the unused
\* destination line of greatest similarity among those of similarity at least
\* 0.60, the lowest position among equals, and emits missing when there is none.
C4_Round ==
  pc = "match" /\ i' = i + 1 =>
    LET s == source_lines[i + 1]
        sim(j) == calculate_line_similarity(s, dest_lines[j])
        cand == {j \in (1..Len(dest_lines)) \ used_dest_indices :
                   RatGeq(sim(j), Rat(60, 100))}
        top == {j \in cand : \A k \in cand : RatGeq(sim(j), sim(k))}
        tm == matches'[Len(matches')]
    IN  /\ Len(matches') = Len(matches) + 1
        /\ tm.source_text = s
        /\ IF cand = {}
           THEN tm.match_type = "missing" /\ used_dest_indices' = used_dest_indices
           ELSE /\ IsMatched(tm)
                /\ used_dest_indices' = used_dest_indices \cup {SetMin(top)}
                /\ tm.dest_text = dest_lines[SetMin(top)]
                /\ RatEq(tm.match_score, Times100(sim(SetMin(top))))

C4_GreedyBestUnused == [][C4_Round]_vars

\* a round that had two equally similar candidates and a less similar one after
C4_Witness ==
  /\ pc = "match"
  /\ i = 1
  /\ Len(dest_lines) = 2
  /\ dest_lines[1] # dest_lines[2]
  /\ used_dest_indices = {1}
  /\ RatEq(calculate_line_similarity(source_lines[1], dest_lines[1]),
           calculate_line_similarity(source_lines[1], dest_lines[2]))

\* C5: the returned matches are one entry per source line in source order,
\* then the unmatched destination lines in destination order.
C5_SourceThenExtrasInOrder ==
  MatchLinesReturned =>
    LET n == Len(source_lines)
    IN  /\ Len(matches) >= n
        /\ \A k \in 1..n :
              IsSourced(matches[k]) /\ matches[k].source_text = source_lines[k]
        /\ \A k \in (n + 1)..Len(matches) : matches[k].match_type = "extra"
        /\ DestText(SubSeq(matches, n + 1, Len(matches)))
             = LinesAt(dest_lines, (1..Len(dest_lines)) \ used_dest_indices, 1)

C5_Witness ==
  /\ MatchLinesReturned
  /\ Len(source_lines) = 2
  /\ Len(matches) = 4
  /\ matches[3].dest_text # matches[4].dest_text

\* ------------------------------------------------- claims about compare
CompareReturned == pc = "done" /\ caller = "compare_texts"

\* the non-blank lines of a raw text, as they stand before normalisation
RawLines(text) == StripNonBlank(SplitNewline(text))

\* each of them normalised on its own, those left empty dropped
RECURSIVE NormalizeEach(_)
NormalizeEach(lines) ==
  IF lines = <<>> THEN <<>>
  ELSE IF normalize_text(Head(lines)) # <<>>
       THEN <<normalize_text(Head(lines))>> \o NormalizeEach(Tail(lines))
       ELSE NormalizeEach(Tail(lines))

NormalizedLines(text) == NormalizeEach(RawLines(text))

\* every non-blank raw line keeps a character under normalisation
LinesSurvive(text) == Len(NormalizedLines(text)) = Len(RawLines(text))

SourceText(ms) == [k \in 1..Len(ms) |-> ms[k].source_text]

PairwiseDissimilar(lines) ==
  \A p, q \in 1..Len(lines) :
     p < q => ~RatGeq(calculate_line_similarity(lines[p], lines[q]), Rat(60, 100))

RemovedOne(long, short) ==
  \E k \in 1..Len(long) :
     short = SubSeq(long, 1, k - 1) \o SubSeq(long, k + 1, Len(long))

\* C6: compare keeps line identity: the matcher receives the non-blank lines
\* of each text, each normalised on its own, in their order, and the
\* source_text (dest_text) fields of the result give back that sequence.
C6_LineIdentityKept ==
  CompareReturned =>
    /\ source_lines = NormalizedLines(source_text)
    /\ dest_lines = NormalizedLines(dest_text)
    /\ SourceText(SelectSeq(result.text_matches, IsSourced))
         = NormalizedLines(source_text)
    /\ BagOfSeq(DestText(SelectSeq(result.text_matches, HasDest)))
         = BagOfSeq(NormalizedLines(dest_text))

\* C7: total_lines is the greater of the numbers of non-blank lines of the
\* two texts counted before normalisation (stated here for texts all of whose
\* non-blank lines keep a character under normalisation).
C7_TotalLinesIsMaxLineCount ==
  CompareReturned /\ LinesSurvive(source_text) /\ LinesSurvive(dest_text) =>
    result.total_lines = Max(Len(RawLines(source_text)), Len(RawLines(dest_text)))

\* C8: when one text is the other with one line removed (lines pairwise
\* dissimilar), the removed line is the only unmatched entry: one missing and
\* no extra when it was removed from the destination, one extra and no
\* missing when it was removed from the source, all other lines matched.
C8_OneLineRemoved ==
  CompareReturned =>
    LET S == NormalizedLines(source_text)
        D == NormalizedLines(dest_text)
    IN  /\ PairwiseDissimilar(S) /\ RemovedOne(S, D) =>
             /\ result.missing_lines = 1
             /\ result.extra_lines = 0
             /\ result.matched_lines = Len(D)
        /\ PairwiseDissimilar(D) /\ RemovedOne(D, S) =>
             /\ result.extra_lines = 1
             /\ result.missing_lines = 0
             /\ result.matched_lines = Len(S)

\* C9: when the destination holds the lines of the source in another order,
\* every line is matched exact and nothing is missing or extra.
C9_OrderIndependent ==
  CompareReturned =>
    LET S == NormalizedLines(source_text)
        D == NormalizedLines(dest_text)
    IN  S # D /\ BagOfSeq(S) = BagOfSeq(D) =>
          /\ Len(result.text_matches) = Len(S)
          /\ \A e \in 1..Len(result.text_matches) :
                result.text_matches[e].match_type = "exact"
          /\ result.missing_lines = 0
          /\ result.extra_lines = 0

SingleLine(text) == text # <<>> /\ "\n" \notin SeqToSet(text)
HasVisible(text) == \E p \in 1..Len(text) : text[p] \notin Whitespace \cup Punctuation

\* C10: two single-line texts that differ only in letter case and in
\* occurrences of the stripped punctuation marks are reported as one match of
\* type exact with score at least 95 (stated here for texts that hold a
\* character other than punctuation and whitespace).
C10_CaseAndPunctuationInsensitive ==
  /\ CompareReturned
  /\ SingleLine(source_text) /\ SingleLine(dest_text)
  /\ HasVisible(source_text)
  /\ Lower(RemovePunctuation(source_text)) = Lower(RemovePunctuation(dest_text))
  => /\ Len(result.text_matches) = 1
     /\ result.text_matches[1].match_type = "exact"
     /\ RatGeq(result.text_matches[1].match_score, Rat(95, 1))

IsHundred(x) == x.num = 100 * x.den
IsZero(x) == x.num = 0

\* C11: comparing a non-empty text with itself gives overall_similarity
\* 100.0, only entries of type exact, and no missing and no extra entry.
C11_IdentityIsPerfect ==
  CompareReturned /\ source_text # <<>> /\ source_text = dest_text =>
    /\ IsHundred(result.overall_similarity)
    /\ \A e \in 1..Len(result.text_matches) :
          /\ result.text_matches[e].match_type = "exact"
          /\ result.text_matches[e].source_text = result.text_matches[e].dest_text
    /\ result.missing_lines = 0
    /\ result.extra_lines = 0
    /\ result.matched_lines = Len(result.text_matches)

C11_Witness ==
  /\ CompareReturned
  /\ source_text = dest_text
  /\ Len(source_text) >= 3
  /\ Len(result.text_matches) = 1
  /\ Len(result.text_matches[1].source_text) >= 3

\* C12: the three whole-text metrics are each 100.0 when both normalised
\* texts are empty and each 0.0 when exactly one of them is empty, and the
\* call returns in both cases.
C12_EmptyTextMetrics ==
  CompareReturned =>
    /\ source_clean = <<>> /\ dest_clean = <<>> =>
         /\ IsHundred(result.overall_similarity)
         /\ IsHundred(result.character_accuracy)
         /\ IsHundred(result.word_accuracy)
    /\ (source_clean = <<>>) # (dest_clean = <<>>) =>
         /\ IsZero(result.overall_similarity)
         /\ IsZero(result.character_accuracy)
         /\ IsZero(result.word_accuracy)

\* a text that is not empty but normalises to the empty text, against one
\* that keeps a character
C12_Witness ==
  /\ CompareReturned
  /\ source_text # <<>>
  /\ source_clean = <<>>
  /\ dest_clean # <<>>

\* C13: character_accuracy equals overall_similarity in every result, though
\* one is keyed on the line lists and the other on the normalised texts.
C13_CharacterAccuracyIsOverall ==
  CompareReturned =>
    /\ RatEq(result.character_accuracy, result.overall_similarity)
    /\ (source_lines = <<>>) <=> (source_clean = <<>>)
    /\ (dest_lines = <<>>) <=> (dest_clean = <<>>)

C13_Witness ==
  /\ CompareReturned
  /\ source_text # <<>> /\ dest_text # <<>>
  /\ source_clean = <<>> /\ dest_clean = <<>>
  /\ IsHundred(result.character_accuracy)

\* C14: matched_lines is the number of entries whose score is at least 60 on
\* the 0 to 100 scale, which is the number of exact or similar entries;
\* missing and extra entries are never counted.
C14_MatchedLinesCount ==
  CompareReturned =>
    /\ result.matched_lines
         = Cardinality({e \in 1..Len(result.text_matches) :
                          RatGeq(result.text_matches[e].match_score, Rat(60, 1))})
    /\ result.matched_lines
         = Cardinality({e \in 1..Len(result.text_matches) :
                          IsMatched(result.text_matches[e])})
    /\ result.matched_lines + result.missing_lines + result.extra_lines
         = Len(result.text_matches)

C14_Witness ==
  /\ CompareReturned
  /\ result.matched_lines = 1
  /\ result.text_matches[1].match_type = "similar"

RecommendReturned == pc = "recommended"

HeadlineTexts ==
  {"Excellent! Data transfer appears to be nearly perfect.",
   "Good data transfer with minor differences.",
   "Moderate accuracy - please review the highlighted differences.",
   "Low accuracy detected - significant differences found."}

\* the headline the thresholds select, band by band
HeadlineOfBand(x) ==
  CHOOSE text \in HeadlineTexts :
    /\ text = "Excellent! Data transfer appears to be nearly perfect."
         <=> RatGeq(x, Rat(95, 1))
    /\ text = "Good data transfer with minor differences."
         <=> RatGeq(x, Rat(80, 1)) /\ ~RatGeq(x, Rat(95, 1))
    /\ text = "Moderate accuracy - please review the highlighted differences."
         <=> RatGeq(x, Rat(60, 1)) /\ ~RatGeq(x, Rat(80, 1))
    /\ text = "Low accuracy detected - significant differences found."
         <=> ~RatGeq(x, Rat(60, 1))

OneHeadlineFirst(x, recs) ==
  /\ Len(recs) >= 1
  /\ recs[1] = Recommendation(HeadlineOfBand(x), 0)
  /\ \A k \in 2..Len(recs) : recs[k].text \notin HeadlineTexts

\* C15: the first recommendation is the one headline message, the one of the
\* first threshold among 95, 80, 60 that overall_similarity reaches, or the
\* low accuracy message below 60; no later element is a headline.
C15_HeadlineByThreshold ==
  /\ CompareReturned =>
       OneHeadlineFirst(result.overall_similarity, result.recommendations)
  /\ RecommendReturned => OneHeadlineFirst(overall_similarity, recommendations)

\* a call on the threshold 80 itself
C15_Witness ==
  /\ RecommendReturned
  /\ overall_similarity = Rat(80, 1)
  /\ recommendations[1].text = "Good data transfer with minor differences."

CountRank(text) ==
  CASE text = "Review missing line(s) that weren't transferred." -> 1
    [] text = "Check extra line(s) that weren't in the original." -> 2
    [] text = "Verify line(s) with minor differences for accuracy." -> 3
    [] OTHER -> 0

TypeOfRank(rank) ==
  CASE rank = 1 -> "missing"
    [] rank = 2 -> "extra"
    [] OTHER -> "similar"

EntriesOfType(ms, type) == {e \in 1..Len(ms) : ms[e].match_type = type}

CountsInOrder(ms, recs) ==
  /\ Len(recs) \in 1..4
  /\ \A k \in 2..Len(recs) :
        /\ CountRank(recs[k].text) \in 1..3
        /\ recs[k].count
             = Cardinality(EntriesOfType(ms, TypeOfRank(CountRank(recs[k].text))))
        /\ recs[k].count > 0
  /\ \A k, l \in 2..Len(recs) :
        k < l => CountRank(recs[k].text) < CountRank(recs[l].text)
  /\ \A rank \in 1..3 :
        EntriesOfType(ms, TypeOfRank(rank)) # {}
          => \E k \in 2..Len(recs) : CountRank(recs[k].text) = rank

\* C16: after the headline come the missing-lines message, the extra-lines
\* message and the similar-lines message, in that order, each present exactly
\* when its count is positive and each citing its count: 1 to 4 elements.
C16_CountsAfterHeadline ==
  /\ CompareReturned => CountsInOrder(result.text_matches, result.recommendations)
  /\ RecommendReturned => CountsInOrder(matches, recommendations)

\* all four messages at once
C16_Witness ==
  /\ RecommendReturned
  /\ Len(recommendations) = 4
  /\ recommendations[2].count >= 1
  /\ recommendations[4].text = "Verify line(s) with minor differences for accuracy."

Normalized == caller = "compare_texts"

UpperCase == DOMAIN LowerOf
StrippedMarks == {",", ";", ":", "!", "?", "\""}
KeptMarks == {"-", ".", "(", ")"}
IsKeptMark(c) == c \in KeptMarks
MarksOf(text) == SelectSeq(text, IsKeptMark)

NormalizeContract(text, clean) ==
  /\ \A p \in 1..Len(clean) : clean[p] \notin UpperCase \cup StrippedMarks
  /\ MarksOf(clean) = MarksOf(text)
  /\ text = <<>> => clean = <<>>

\* C18: the normalised text has no upper-case letter and none of , ; : ! ? "
\* while the hyphens, periods and parentheses of the input are all kept, in
\* their order; the empty input (Python's falsy text, None included) gives
\* the empty text.
C18_NormalizeStripsAndKeeps ==
  Normalized =>
    /\ NormalizeContract(source_text, source_clean)
    /\ NormalizeContract(dest_text, dest_clean)

C18_Witness ==
  /\ Normalized
  /\ Len(MarksOf(source_text)) >= 4
  /\ \E p \in 1..Len(source_text) : source_text[p] \in StrippedMarks
  /\ \E p \in 1..Len(source_text) : source_text[p] \in UpperCase
  /\ Len(source_clean) = Len(source_text) - 1

NoWhitespaceRun(text) ==
  \A p \in 1..(Len(text) - 1) :
    ~(text[p] \in Whitespace /\ text[p + 1] \in Whitespace)

\* C19: the normalised text has no two consecutive whitespace characters,
\* also where a stripped punctuation mark stood between two spaces.
C19_NoWhitespaceRun ==
  Normalized => NoWhitespaceRun(source_clean) /\ NoWhitespaceRun(dest_clean)

ThreadReturned(t) == thread_pc[t] = "done"
ResultOf(t) == frames[frame_of(t)].result

\* C17: a call returns the result an earlier call with the same two texts
\* returned, in every field, the words of the issues and their order
\* included, whatever ran in between; and so do two calls in flight together.
C17_SameInputsSameResult ==
  /\ \A t \in Threads :
        ThreadReturned(t) /\ previous.called
          /\ previous.source_text = thread_args[t][1]
          /\ previous.dest_text = thread_args[t][2]
        => ResultOf(t) = previous.result
  /\ \A t, u \in Threads :
        ThreadReturned(t) /\ ThreadReturned(u) /\ thread_args[t] = thread_args[u]
        => ResultOf(t) = ResultOf(u)

\* compare_texts run from its first line to its last with no other call
RECURSIVE match_lines_alone(_, _, _, _, _, _)
match_lines_alone(order, sources, dests, k, used, ms) ==
  IF k > Len(sources)
  THEN ms \o extra_entries(dests, used, 1, Len(sources))
  ELSE LET best == find_best_match(sources[k], dests, used, 1, 0, Rat(0, 1))
       IN  IF best.idx >= 1
           THEN match_lines_alone(order, sources, dests, k + 1, used \cup {best.idx},
                  Append(ms, matched_entry(sources, dests, k, best,
                     identify_line_issues_under(order, sources[k], dests[best.idx]))))
           ELSE match_lines_alone(order, sources, dests, k + 1, used,
                  Append(ms, missing_entry(sources, k)))

compare_texts_alone(order, source, dest) ==
  LET clean_source == normalize_text(source)
      clean_dest == normalize_text(dest)
      lines_source == split_lines(clean_source)
      lines_dest == split_lines(clean_dest)
  IN  TextValidationResult(lines_source, lines_dest, clean_source, clean_dest,
        match_lines_alone(order, lines_source, lines_dest, 1, {}, <<>>))

StepOf(t) ==
  \/ ThreadCall(t)
  \/ ThreadRound(t)
  \/ ThreadExtras(t)
  \/ ThreadMetrics(t)
  \/ ThreadReturn(t)

C20_Step ==
  /\ engine' = engine
  /\ engine'.similarity_threshold = similarity_threshold
  /\ \A t \in Threads :
        frames'[frame_of(t)] # frames[frame_of(t)] \/ thread_args'[t] # thread_args[t]
          => Restart \/ StepOf(t)
  /\ \A t \in Threads :
        thread_pc[t] # "done" /\ thread_pc'[t] = "done"
          => frames'[frame_of(t)].result
               = compare_texts_alone(hash_seed', thread_args'[t][1], thread_args'[t][2])

\* C20: whatever the interleaving of the threads' steps, an invocation ends
\* with the result it gets when run alone, a step of one thread leaves the
\* locals and arguments of every other thread as they were, and no step
\* changes the engine's similarity_threshold.
C20_InvocationsIndependent == [][C20_Step]_vars

\* two invocations on different texts, both past their first round
C20_Witness ==
  /\ thread_pc[1] = "metrics"
  /\ thread_pc[2] = "match"
  /\ frames[frame_of(2)].i = 1
  /\ thread_args[1] # thread_args[2]
  /\ Len(frames[frame_of(1)].matches) = 1
  /\ frames[frame_of(1)].matches[1].match_type = "similar"

\* an entry without its issues, which C23 covers
Core(ms) == [e \in 1..Len(ms) |-> [ms[e] EXCEPT !.issues = <<>>]]

\* the first k entries of the matcher's list for the first k source lines
PrefixRun(k) ==
  SubSeq(Core(match_lines_alone(<<>>, SubSeq(source_lines, 1, k), dest_lines,
                                1, {}, <<>>)), 1, k)

\* C21: the first k entries of the list are the first k entries the matcher
\* gives for the first k source lines alone, for every k: an entry is never
\* rewritten and a destination line never moves to a later source line, also
\* when that line is more similar to it.
C21_SinglePassNoBacktrack ==
  MatchLinesReturned =>
    /\ \A k \in 0..Len(source_lines) : SubSeq(Core(matches), 1, k) = PrefixRun(k)
    /\ Cardinality(used_dest_indices)
         = Cardinality({e \in 1..Len(matches) : IsMatched(matches[e])})

\* the second source line equals the destination line the first one took
C21_Witness ==
  /\ MatchLinesReturned
  /\ Len(matches) = 2
  /\ matches[1].match_type = "similar"
  /\ matches[2].match_type = "missing"
  /\ matches[2].source_text = matches[1].dest_text

EntryShape(tm) ==
  CASE tm.match_type = "missing" ->
         /\ tm.dest_text = <<>>
         /\ IsZero(tm.match_score)
         /\ tm.line_number \in 1..Len(source_lines)
         /\ tm.source_text = source_lines[tm.line_number]
         /\ tm.issues = <<Issue("Line missing in destination", <<>>, 0, 0)>>
    [] tm.match_type = "extra" ->
         /\ tm.source_text = <<>>
         /\ IsZero(tm.match_score)
         /\ tm.line_number = Len(source_lines) + 1
         /\ tm.issues = <<Issue("Extra line not in source", <<>>, 0, 0)>>
    [] OTHER ->
         /\ tm.line_number \in 1..Len(source_lines)
         /\ tm.source_text = source_lines[tm.line_number]

\* C22: a missing entry has no dest_text, score 0, the position of its source
\* line as line_number and the one issue "Line missing in destination"; an
\* extra entry has no source_text, score 0, the one issue "Extra line not in
\* source" and line_number source line count plus one, the same for all of
\* them; a matched entry has the position of its source line as line_number.
C22_EntryFields ==
  MatchLinesReturned =>
    /\ \A e \in 1..Len(matches) : EntryShape(matches[e])
    /\ \A e \in 1..Len(source_lines) : matches[e].line_number = e

\* one missing line and two extra lines with the same line_number
C22_Witness ==
  /\ MatchLinesReturned
  /\ Len(source_lines) = 1
  /\ Len(matches) = 3
  /\ matches[1].match_type = "missing"
  /\ matches[2].match_type = "extra"
  /\ matches[3].line_number = 2

WordsOf(line) == SeqToSet(SplitWords(line))
LengthsDiffer(tm) ==
  \/ Len(tm.source_text) > Len(tm.dest_text) + 10
  \/ Len(tm.dest_text) > Len(tm.source_text) + 10
MissingWords(tm) == WordsOf(tm.source_text) \ WordsOf(tm.dest_text)
ExtraWords(tm) == WordsOf(tm.dest_text) \ WordsOf(tm.source_text)

\* the kinds of issue the claim expects for a matched pair, in their order
ExpectedKinds(tm) ==
  (IF LengthsDiffer(tm) THEN <<"Length difference">> ELSE <<>>)
    \o (IF MissingWords(tm) # {} THEN <<"Missing words">> ELSE <<>>)
    \o (IF ExtraWords(tm) # {} THEN <<"Extra words">> ELSE <<>>)

\* an issue names at most 3 words, all different and all of the set
NamesWordsOf(issue, word_set) ==
  /\ Len(issue.words) \in 1..3
  /\ Len(issue.words) = Min(3, Cardinality(word_set))
  /\ \A p \in 1..Len(issue.words) : issue.words[p] \in word_set
  /\ \A p, q \in 1..Len(issue.words) : p # q => issue.words[p] # issue.words[q]

IssueFits(tm, issue) ==
  CASE issue.kind = "Length difference" ->
         /\ issue.source_len = Len(tm.source_text)
         /\ issue.dest_len = Len(tm.dest_text)
    [] issue.kind = "Missing words" -> NamesWordsOf(issue, MissingWords(tm))
    [] issue.kind = "Extra words" -> NamesWordsOf(issue, ExtraWords(tm))
    [] OTHER -> FALSE

\* C23: the issues of a matched pair are, in this order and nothing else, a
\* length-difference message exactly when the lengths differ by more than 10,
\* a missing-words message exactly when a word of the source line is absent
\* from the destination line, an extra-words message exactly when a word of
\* the destination line is absent from the source line, each naming at most 3
\* such words.
C23_IssuesOfMatchedPair ==
  MatchLinesReturned =>
    \A e \in 1..Len(matches) :
      IsMatched(matches[e]) =>
        /\ [p \in 1..Len(matches[e].issues) |-> matches[e].issues[p].kind]
             = ExpectedKinds(matches[e])
        /\ \A p \in 1..Len(matches[e].issues) :
              IssueFits(matches[e], matches[e].issues[p])

\* a pair with all three issues and a pair with four missing words
C23_Witness ==
  /\ MatchLinesReturned
  /\ Len(matches) = 2
  /\ Len(matches[1].issues) = 3
  /\ matches[1].issues[1].kind = "Length difference"
  /\ IsMatched(matches[2])
  /\ Cardinality(MissingWords(matches[2])) = 4
  /\ Len(matches[2].issues[1].words) = 3

InCompareTexts == caller = "compare_texts" /\ pc # "idle"
HasNewline(text) == \E p \in 1..Len(text) : text[p] = "\n"

C26_CountsConsistent ==
  CompareReturned =>
    /\ result.matched_lines + result.missing_lines = Len(source_lines)
    /\ result.matched_lines + result.extra_lines = Len(dest_lines)
    /\ Len(result.text_matches)
         = result.matched_lines + result.missing_lines + result.extra_lines
    /\ result.total_lines <= Len(result.text_matches)

\* a result with one missing and one extra entry
C26_Witness ==
  /\ CompareReturned
  /\ result.matched_lines = 0
  /\ result.missing_lines = 1
  /\ result.extra_lines = 1
  /\ result.total_lines = 1

\* C27: normalising a normalised text changes nothing.
C27_NormalizeIdempotent ==
  Normalized =>
    /\ normalize_text(source_clean) = source_clean
    /\ normalize_text(dest_clean) = dest_clean


\* ------------------------------------------------ extract_text_from_image
GeminiReturned == gemini_pc = "returned"

\* how an attempt can end without an answer the loop returns on
EndedInRetry(o) ==
  \/ o.status_code = 429
  \/ o.status_code >= 500
  \/ o.raised = "Timeout"
  \/ o.raised \in {"RequestException", "Exception"}
  \/ o.status_code = 200 /\ ~o.body.json

C28_Safety ==
  /\ requests_sent <= max_retries
  /\ Len(responses) = requests_sent
  /\ gemini_return.result.max_retries_reached =>
       /\ GeminiReturned \/ gemini_pc = "idle"
       /\ requests_sent = 3
       /\ \A k \in 1..3 : EndedInRetry(responses[k])
  /\ Len(sleeps) < max_retries
  /\ GeminiReturned => Len(sleeps) = requests_sent - 1
  /\ GeminiReturned => gemini_return \in GeminiReturns

\* C28: one call of extract_text_from_image sends at most max_retries (3)
\* requests and always returns; it returns the failure marked
\* max_retries_reached only after exactly 3 attempts that each ended in a 429,
\* a status >= 500, a timeout or an exception, and no sleep follows the last
\* attempt
C28_BoundedRetries ==
  /\ []C28_Safety
  /\ (gemini_pc = "request") ~> GeminiReturned

C28_Witness ==
  /\ GeminiReturned
  /\ gemini_return = all_failed_result
  /\ requests_sent = 3
  /\ sleeps = <<1, 2>>
  /\ responses[1].status_code = 429
  /\ responses[2].raised = "Timeout"
  /\ responses[3].status_code = 500

IsClientError(o) == o.status_code \in 400..499 /\ o.status_code # 429

LastResponse == responses[Len(responses)]

\* a client error returns failure at once, and the wait before attempt k+1
\* is retry_delay * 2^k
C29_ClientErrorAndBackoff ==
  /\ \A k \in 1..(Len(responses) - 1) : ~IsClientError(responses[k])
  /\ GeminiReturned /\ IsClientError(LastResponse) =>
       /\ ~gemini_return.success
       /\ ~gemini_return.result.max_retries_reached
       /\ gemini_return.result.attempt = requests_sent
  /\ \A k \in 0..(Len(responses) - 2) :
       /\ Len(sleeps) >= k + 1
       /\ sleeps[k + 1] = retry_delay * 2^k

\* C29 as stated: no request follows an attempt that received status 200 or a
\* client error other than 429; a 200 returns success with attempt set to the
\* number of requests made so far, a client error returns failure at once, and
\* the call waits retry_delay * 2^k before attempt k+1
C29_NoRequestAfter200 ==
  /\ \A k \in 1..(Len(responses) - 1) : responses[k].status_code # 200
  /\ GeminiReturned /\ LastResponse.status_code = 200 =>
       /\ gemini_return.success
       /\ gemini_return.result.attempt = requests_sent
  /\ C29_ClientErrorAndBackoff

Decoded200(o) == o.status_code = 200 /\ o.body.json

\* C29, amended: no request follows an attempt that received a 200 with a
\* decodable body or a client error other than 429; such a 200 returns success
\* with attempt set to the number of requests made so far, a client error
\* returns failure at once, and the call waits retry_delay * 2^k before
\* attempt k+1; a 200 whose body cannot be decoded is retried
C29_NoRequestAfterDecoded200 ==
  /\ \A k \in 1..(Len(responses) - 1) : ~Decoded200(responses[k])
  /\ GeminiReturned /\ Decoded200(LastResponse) =>
       /\ gemini_return.success
       /\ gemini_return.result.attempt = requests_sent
  /\ C29_ClientErrorAndBackoff

C29_Witness ==
  /\ GeminiReturned
  /\ requests_sent = 3
  /\ responses[1] = Reply(200, NotJson)
  /\ responses[2].status_code = 503
  /\ Decoded200(responses[3])
  /\ sleeps = <<1, 2>>
  /\ gemini_return.success
  /\ gemini_return.result.attempt = 3


\* ------------------------------------------------------------------ routes
\* a JSON text that is null, empty or only whitespace
LacksText(text) == text = None \/ Strip(text[1]) = <<>>

BothFound(data) ==
  /\ data.main_upload_id # None
  /\ data.secondary_upload_id # None
  /\ find_upload(data.main_upload_id[1], "main") # None
  /\ find_upload(data.secondary_upload_id[1], "secondary") # None

\* a stored text that is None, empty or only whitespace
RowLacksText(id) == LacksText(uploads[id].gemini_extracted_text)

Refused == /\ response'.status = 400
           /\ ~response'.engine_invoked
           /\ comparisons' = comparisons

C24_Step ==
  /\ \A data \in TextRequests :
       /\ response'.route = "compare_text"
       /\ CompareRawText(data)
       /\ \/ ~data.has_source_text
          \/ ~data.has_destination_text
          \/ LacksText(data.source_text)
          \/ LacksText(data.destination_text)
       => Refused
  /\ \A data \in CompareRequests :
       /\ response'.route = "compare"
       /\ CompareUploads(data)
       /\ BothFound(data)
       /\ \/ RowLacksText(data.main_upload_id[1])
          \/ RowLacksText(data.secondary_upload_id[1])
       => Refused

\* C24: when the source or the destination of /compare or /compare/text has
\* no extractable text (missing, empty, or only whitespace), the route
\* answers 400, does not invoke the engine and stores no Comparison
C24_NoTextAnswers400 == [][C24_Step]_vars

Consistent(upload) ==
  /\ upload.gemini_processed <=> upload.gemini_extracted_text # None
  /\ upload.gemini_processed <=> upload.gemini_processed_at # None
  /\ upload.gemini_processed <=> upload.gemini_error = None

C30_Rows == \A id \in 1..Len(uploads) : Consistent(uploads[id])

\* the request names a stored row whose extraction failed
NamesFailed(id) ==
  /\ id # None
  /\ id[1] \in 1..Len(uploads)
  /\ ~uploads[id[1]].gemini_processed

\* an answer of /compare other than the refusal goes to a request that names
\* a failed row only when one of its two rows is not found, and then without
\* the engine and without a Comparison
C30_Step ==
  response'.route = "compare" /\ ~Refused =>
    \A data \in CompareRequests :
      /\ NamesFailed(data.main_upload_id) \/ NamesFailed(data.secondary_upload_id)
      /\ CompareUploads(data)
      => /\ ~response'.engine_invoked
         /\ comparisons' = comparisons
         /\ ~BothFound(data)

============================================================================
